---- MODULE Spec2Model ----
(***************************************************************************)
(* Update Scanner: the sequential scan pipeline (Scan.scan, Scan._scanPage, *)
(* Scan._processHtml, Scan._updatePageState, Scan._getChangeType) and the   *)
(* Page record it updates (Page.DEFAULTS, Page.stateEnum, Page.save,        *)
(* Page.delete).                                                           *)
(*                                                                         *)
(* Spec is the scan pipeline; LiveSpec adds that every fetch settles;      *)
(* LandedSpec starts a scan only once earlier storage calls have settled;  *)
(* LoadedSpec starts from pages stored with the ERROR state; PageSpec is   *)
(* Page.save / Page.delete against an object store whose calls may fail.   *)
(*                                                                         *)
(* JavaScript values are encoded as follows: a string is a sequence of     *)
(* one-character strings ('' is <<>>), undefined is Undefined, and the     *)
(* values null / true / false of page.error are the strings "null",        *)
(* "true", "false" (page.error starts as null, which is not a boolean).    *)
(***************************************************************************)
EXTENDS Integers, Sequences, FiniteSets, TLC

\* Number of pages fetched in one behaviour, over all Scan.scan calls.
MaxFetches == 2
\* Number of storage calls the user interface has in flight at most.
MaxInFlight == 2
\* The page.changeThreshold the pages are configured with.
Threshold == 2

\* The ids of the pages the user tracks.
Pages == {1, 2}

\* Page.stateEnum
stateEnum == [NO_CHANGE |-> "no_change", CHANGED |-> "changed", ERROR |-> "error"]

\* Scan.changeEnum
changeEnum ==
  [NEW_CONTENT |-> "new_content", NO_CHANGE |-> "no_change",
   MAJOR_CHANGE |-> "major_change", MINOR_CHANGE |-> "minor_change"]

\* PageStore.htmlTypes_OLD and PageStore.htmlTypes_NEW
htmlTypes_OLD == "old"

htmlTypes_NEW == "new"

\* The value of a snapshot slot nothing was ever saved to.
Undefined == <<"undefined">>

\* The documents a fetch of a page may return.
Docs == { <<>>, <<"1">>, <<"2", "2">> }

\* The NEW snapshot of a page when the behaviour starts: none, or a document
\* an earlier session fetched.
InitialDocs == { Undefined, <<"1">> }

\* What fetch(page.url) settles with: a response, or a transport error.
Responses ==
  [ok : {TRUE}, status : {"200"}, statusText : {"OK"}, text : Docs]
    \cup { [ok |-> FALSE, status |-> "404", statusText |-> "Not Found", text |-> <<>>] }

TransportErrors == { <<"TypeError: NetworkError">> }

\* The page lists a caller hands to Scan.scan: some of the pages, at least one,
\* in any order, no page twice.
PageLists ==
  { l \in UNION { [1..n -> Pages] : n \in 1..Cardinality(Pages) } :
      \A i, j \in DOMAIN l : i # j => l[i] # l[j] }

VARIABLES
  page,          \* the Page objects: state, error, errorMessage, changeThreshold,
                 \* ignoreNumbers
  storedPage,    \* the object store: the saved Page record of each page
  html,          \* the snapshot store: html[id][htmlType]
  storageOps,    \* PageStore.loadHtml / saveHtml and Page.save calls in flight,
                 \* in issue order
  pc,            \* the promise Scan.scan returned: idle (no scan yet), fetching
                 \* (pending, a fetch in flight), fulfilled
  pageList,      \* the argument of the running Scan.scan
  idx,           \* position of the chain in pageList
  scanId,        \* number of Scan.scan calls so far
  fetches,       \* number of pages handed to Scan.scan so far
  fetched,       \* history: the pages the running Scan.scan issued a fetch for,
                 \* in order
  outcomes,      \* history: how each fetch of the running Scan.scan settled
  settled,       \* history: how the last promise of Page.save and of Page.delete
                 \* settled
  majorSinceAck, \* history: a MAJOR_CHANGE was classified since the last acknowledgment
  baseline,      \* history: the NEW snapshot loaded when the page last became CHANGED
  last           \* history: the last step of the program (not of the stores)

vars ==
  <<page, storedPage, html, storageOps, pc, pageList, idx, scanId, fetches,
    fetched, outcomes, settled, majorSinceAck, baseline, last>>

Max(a, b) == IF a >= b THEN a ELSE b

\* Length of a longest common subsequence of two texts.
RECURSIVE LCS(_, _)
LCS(a, b) ==
  IF a = <<>> \/ b = <<>> THEN 0
  ELSE IF Head(a) = Head(b) THEN 1 + LCS(Tail(a), Tail(b))
  ELSE Max(LCS(Tail(a), b), LCS(a, Tail(b)))

\* Number of characters deleted from text1 plus inserted into text2.
Magnitude(text1, text2) == Len(text1) + Len(text2) - 2 * LCS(text1, text2)

\* Fuzzy.isMajorChange: the outcomes the call can have. On two texts it answers
\* whether the difference reaches the threshold; what it does with undefined is
\* not fixed: it may throw or answer either way.
Fuzzy_isMajorChange(html1, html2, changeThreshold) ==
  IF html1 = Undefined \/ html2 = Undefined THEN {"throws", "true", "false"}
  ELSE IF Magnitude(html1, html2) >= changeThreshold THEN {"true"}
  ELSE {"false"}

\* Scan._getChangeType, given what Fuzzy.isMajorChange answers if it is asked.
\* undefined == '' is false in JavaScript.
_getChangeType(html1, html2, isMajor) ==
  IF html1 = <<>> THEN changeEnum.NEW_CONTENT
  ELSE IF html1 = html2 THEN changeEnum.NO_CHANGE
  ELSE IF isMajor = "true" THEN changeEnum.MAJOR_CHANGE
  ELSE changeEnum.MINOR_CHANGE

\* Whether Scan._getChangeType reaches the call of Fuzzy.isMajorChange.
AsksFuzzy(html1, html2) == html1 # <<>> /\ html1 # html2

\* Page.DEFAULTS, with the changeThreshold the user configured.
DEFAULTS(threshold) ==
  [state |-> stateEnum.NO_CHANGE, error |-> "null", errorMessage |-> <<"null">>,
   changeThreshold |-> threshold, ignoreNumbers |-> FALSE]

\* The pages the user configured with ignoreNumbers = true.
IgnoringNumbers == {1}

\* Page._toObject: the fields of the Page as saved.
_toObject(p) ==
  [state |-> p.state, error |-> p.error, errorMessage |-> p.errorMessage,
   changeThreshold |-> p.changeThreshold, ignoreNumbers |-> p.ignoreNumbers]

\* A storage call in flight.
StorageOp(op, id, htmlType, text, data) ==
  [op |-> op, id |-> id, htmlType |-> htmlType, html |-> text, data |-> data,
   scan |-> scanId]

NoData ==
  [state |-> "-", error |-> "-", errorMessage |-> <<>>, changeThreshold |-> 0,
   ignoreNumbers |-> FALSE]

\* PageStore.saveHtml(id, htmlType, html): the call issued, not awaited.
saveHtml(id, htmlType, text) == StorageOp("saveHtml", id, htmlType, text, NoData)

\* PageStore.loadHtml(id, htmlType), carrying the scanned HTML its callback closes over.
loadHtml(id, htmlType, scannedHtml) ==
  StorageOp("loadHtml", id, htmlType, scannedHtml, NoData)

\* Page.save: Storage.save(key, _toObject()) issued, its failure swallowed.
save(id, p) == StorageOp("save", id, "-", <<>>, _toObject(p))

\* The calls a callback issues belong to the Scan.scan whose fetch it handles.
IssuedBy(scanNo, ops) == [i \in DOMAIN ops |-> [ops[i] EXCEPT !.scan = scanNo]]

\* Settled with the try / catch of Page.save and Page.delete left out.
Settled_Uncaught(call, storage) ==
  [call |-> call, storage |-> storage, promise |-> storage,
   value |-> IF storage = "rejected" THEN "error" ELSE "{}",
   logged |-> FALSE]

\* How the promise of Page.save ("save") or Page.delete ("delete") settles,
\* given how the awaited Storage.save / Storage.remove settled: a rejection is
\* caught and logged, and the function returns {} either way.
Settled(call, storage) ==
  [call |-> call, storage |-> storage, promise |-> "fulfilled", value |-> "{}",
   logged |-> (storage = "rejected")]

\* No Page.save / Page.delete promise has settled yet.
NotSettled ==
  [call |-> "-", storage |-> "-", promise |-> "-", value |-> "-", logged |-> FALSE]

\* The history record of a step.
Event(kind, id, cat, prev, prevHtml, text) ==
  [kind |-> kind, id |-> id, cat |-> cat, prevState |-> prev.state,
   prevError |-> prev.error, prevHtml |-> prevHtml, html |-> text]

Step(kind, id) == Event(kind, id, "-", [state |-> "-", error |-> "-"], <<>>, <<>>)

\* checkStatus inside Scan._scanPage: the response, or the rejection reason.
checkStatus(response) ==
  IF response.ok THEN [resolved |-> TRUE, value |-> response.text]
  ELSE [resolved |-> FALSE, value |-> <<"[", response.status, "] ", response.statusText>>]

Init ==
  /\ page = [id \in Pages |->
               [DEFAULTS(Threshold) EXCEPT !.ignoreNumbers = (id \in IgnoringNumbers)]]
  /\ storedPage = [id \in Pages |-> _toObject(page[id])]
  /\ html \in [Pages -> { [t \in {htmlTypes_OLD, htmlTypes_NEW} |->
                               IF t = htmlTypes_NEW THEN d ELSE Undefined] :
                             d \in InitialDocs }]
  /\ storageOps = <<>>
  /\ pc = "idle"
  /\ pageList = <<>>
  /\ idx = 1
  /\ scanId = 0
  /\ fetches = 0
  /\ fetched = <<>>
  /\ outcomes = <<>>
  /\ settled = [call \in {"save", "delete"} |-> NotSettled]
  /\ majorSinceAck = [id \in Pages |-> FALSE]
  /\ baseline = [id \in Pages |-> Undefined]
  /\ last = Step("init", 0)

\* _scanPage with the chain ending after its first link.
_scanPage_FirstOnly(list, i) ==
  /\ idx' = i
  /\ pc' = IF i = 1 THEN "fetching" ELSE "fulfilled"
  /\ fetched' = (IF i = 1 THEN <<>> ELSE fetched)
                  \o (IF i = 1 THEN << list[i] >> ELSE <<>>)

\* The chain of Scan.scan moves on to position i: Scan._scanPage issues the
\* fetch of the page there, or, past the last page, the promise Scan.scan
\* returned fulfils. Promise reactions run before any I/O completion is
\* delivered, so no storage or network event comes between a link settling and
\* the next fetch being issued.
_scanPage(list, i) ==
  /\ idx' = i
  /\ pc' = IF i <= Len(list) THEN "fetching" ELSE "fulfilled"
  /\ fetched' = (IF i = 1 THEN <<>> ELSE fetched)
                  \o (IF i <= Len(list) THEN << list[i] >> ELSE <<>>)

\* Scan.scan(pageList): build the promise chain; its first link issues the first
\* fetch. A caller starts a scan when no other scan's promise is pending.
scan(list) ==
  /\ pc \in {"idle", "fulfilled"}
  /\ fetches + Len(list) <= MaxFetches
  /\ fetches' = fetches + Len(list)
  /\ pageList' = list
  /\ _scanPage(list, 1)
  /\ scanId' = scanId + 1
  /\ outcomes' = <<>>
  /\ last' = Step("scan", 0)
  /\ UNCHANGED <<page, storedPage, html, storageOps, settled, majorSinceAck,
                 baseline>>

\* Scan._processHtml(page, scannedHtml): PageStore.loadHtml is issued and the
\* function returns undefined, not the promise.
_processHtml(id, scannedHtml) ==
  /\ storageOps' = Append(storageOps, loadHtml(id, htmlTypes_NEW, scannedHtml))
  /\ outcomes' = Append(outcomes, "ok")
  /\ last' = Event("processHtml", id, "-", page[id], <<>>, scannedHtml)
  /\ UNCHANGED page

\* catch marking the page state as an error as well.
catch_MarksState(id, error) ==
  /\ page' = [page EXCEPT ![id].error = "true", ![id].errorMessage = error,
                          ![id].state = stateEnum.ERROR]
  /\ outcomes' = Append(outcomes, "failed")
  /\ last' = Event("catch", id, "-", page[id], <<>>, error)
  /\ UNCHANGED storageOps

\* The .catch of Scan._scanPage.
catch(id, error) ==
  /\ page' = [page EXCEPT ![id].error = "true", ![id].errorMessage = error]
  /\ outcomes' = Append(outcomes, "failed")
  /\ last' = Event("catch", id, "-", page[id], <<>>, error)
  /\ UNCHANGED storageOps

\* fetch(page.url) settles with a response: checkStatus, response.text(),
\* Scan._processHtml, or the .catch on a status that is not ok.
fetchResponds(response) ==
  /\ pc = "fetching"
  /\ LET id == pageList[idx]
         checked == checkStatus(response)
     IN  IF checked.resolved THEN _processHtml(id, checked.value)
         ELSE catch(id, checked.value)
  /\ _scanPage(pageList, idx + 1)
  /\ UNCHANGED <<storedPage, html, pageList, scanId, fetches, settled,
                 majorSinceAck, baseline>>

\* fetchRejects without the .catch: the rejection ends the chain of Scan.scan.
fetchRejects_Uncaught(error) ==
  /\ pc = "fetching"
  /\ pc' = "rejected"
  /\ outcomes' = Append(outcomes, "failed")
  /\ last' = Event("uncaught", pageList[idx], "-", page[pageList[idx]], <<>>, error)
  /\ UNCHANGED <<page, storedPage, html, storageOps, pageList, idx, scanId,
                 fetches, fetched, settled, majorSinceAck, baseline>>

\* fetch(page.url), or response.text(), rejects (transport error): the .catch.
fetchRejects(error) ==
  /\ pc = "fetching"
  /\ catch(pageList[idx], error)
  /\ _scanPage(pageList, idx + 1)
  /\ UNCHANGED <<storedPage, html, pageList, scanId, fetches, settled,
                 majorSinceAck, baseline>>

\* NewState resetting the state only when it is NO_CHANGE already.
NewState_ErrorKept(state, cat) ==
  IF cat = changeEnum.MAJOR_CHANGE THEN stateEnum.CHANGED
  ELSE IF state = stateEnum.NO_CHANGE THEN stateEnum.NO_CHANGE
  ELSE state

\* NewState with the NO_CHANGE branch assigning the state unguarded.
NewState_Unguarded(state, cat) ==
  IF cat = changeEnum.MAJOR_CHANGE THEN stateEnum.CHANGED
  ELSE IF state # stateEnum.CHANGED \/ cat = changeEnum.NO_CHANGE
    THEN stateEnum.NO_CHANGE
  ELSE state

\* NewState with MINOR_CHANGE falling through to the MAJOR_CHANGE case.
NewState_MinorMarks(state, cat) ==
  IF cat \in {changeEnum.MAJOR_CHANGE, changeEnum.MINOR_CHANGE}
    THEN stateEnum.CHANGED
  ELSE IF state # stateEnum.CHANGED THEN stateEnum.NO_CHANGE
  ELSE state

\* The page state Scan._updatePageState assigns.
NewState(state, cat) ==
  IF cat = changeEnum.MAJOR_CHANGE THEN stateEnum.CHANGED
  ELSE IF state # stateEnum.CHANGED THEN stateEnum.NO_CHANGE
  ELSE state

\* SavedHtml refreshing the NEW snapshot in the NO_CHANGE branch as well.
SavedHtml_NoChangeRefreshes(id, state, cat, prevHtml, scannedHtml) ==
  IF cat = changeEnum.MAJOR_CHANGE
    THEN (IF state # stateEnum.CHANGED
            THEN << saveHtml(id, htmlTypes_OLD, prevHtml) >> ELSE << >>)
         \o << saveHtml(id, htmlTypes_NEW, scannedHtml) >>
  ELSE << saveHtml(id, htmlTypes_NEW, scannedHtml) >>

\* SavedHtml saving the scanned HTML, not the previous, as the OLD snapshot.
SavedHtml_OldIsScanned(id, state, cat, prevHtml, scannedHtml) ==
  IF cat \in {changeEnum.NEW_CONTENT, changeEnum.MINOR_CHANGE}
    THEN << saveHtml(id, htmlTypes_NEW, scannedHtml) >>
  ELSE IF cat = changeEnum.MAJOR_CHANGE
    THEN (IF state # stateEnum.CHANGED
            THEN << saveHtml(id, htmlTypes_OLD, scannedHtml) >> ELSE << >>)
         \o << saveHtml(id, htmlTypes_NEW, scannedHtml) >>
  ELSE << >>

\* SavedHtml saving the OLD snapshot on every MAJOR_CHANGE.
SavedHtml_OldAlways(id, state, cat, prevHtml, scannedHtml) ==
  IF cat \in {changeEnum.NEW_CONTENT, changeEnum.MINOR_CHANGE}
    THEN << saveHtml(id, htmlTypes_NEW, scannedHtml) >>
  ELSE IF cat = changeEnum.MAJOR_CHANGE
    THEN << saveHtml(id, htmlTypes_OLD, prevHtml),
            saveHtml(id, htmlTypes_NEW, scannedHtml) >>
  ELSE << >>

\* The PageStore.saveHtml calls Scan._updatePageState issues, in order.
SavedHtml(id, state, cat, prevHtml, scannedHtml) ==
  IF cat \in {changeEnum.NEW_CONTENT, changeEnum.MINOR_CHANGE}
    THEN << saveHtml(id, htmlTypes_NEW, scannedHtml) >>
  ELSE IF cat = changeEnum.MAJOR_CHANGE
    THEN (IF state # stateEnum.CHANGED
            THEN << saveHtml(id, htmlTypes_OLD, prevHtml) >> ELSE << >>)
         \o << saveHtml(id, htmlTypes_NEW, scannedHtml) >>
  ELSE << >>

\* UpdatedPage clearing the error only in the branches that save HTML.
UpdatedPage_ErrorKept(p, cat) ==
  IF cat = changeEnum.NO_CHANGE THEN [p EXCEPT !.state = NewState(p.state, cat)]
  ELSE [p EXCEPT !.state = NewState(p.state, cat), !.error = "false",
                 !.errorMessage = <<>>]

\* The in-memory Page after Scan._updatePageState.
UpdatedPage(p, cat) ==
  [p EXCEPT !.state = NewState(p.state, cat), !.error = "false", !.errorMessage = <<>>]

\* Scan._updatePageState(page, prevHtml, scannedHtml), run by the callback of
\* PageStore.loadHtml, with the category Scan._getChangeType returned.
_updatePageState(id, prevHtml, scannedHtml, cat) ==
  /\ page' = [page EXCEPT ![id] = UpdatedPage(page[id], cat)]
  /\ storageOps' = Tail(storageOps)
                     \o IssuedBy(Head(storageOps).scan,
                           SavedHtml(id, page[id].state, cat, prevHtml, scannedHtml)
                             \o << save(id, page'[id]) >>)
  /\ majorSinceAck' =
       [majorSinceAck EXCEPT ![id] = @ \/ cat = changeEnum.MAJOR_CHANGE]
  /\ baseline' =
       IF cat = changeEnum.MAJOR_CHANGE /\ page[id].state # stateEnum.CHANGED
         THEN [baseline EXCEPT ![id] = prevHtml]
         ELSE baseline
  /\ last' = Event("updatePageState", id, cat, page[id], prevHtml, scannedHtml)

\* PageStore.loadHtml fulfils with the stored NEW snapshot and the callback in
\* Scan._processHtml runs. When Fuzzy.isMajorChange throws, the callback ends
\* there and its rejection is handled by nobody.
loadHtmlResolves ==
  /\ storageOps # <<>>
  /\ Head(storageOps).op = "loadHtml"
  /\ LET id == Head(storageOps).id
         prevHtml == html[id][htmlTypes_NEW]
         scannedHtml == Head(storageOps).html
     IN  IF AsksFuzzy(prevHtml, scannedHtml)
           THEN \E isMajor \in Fuzzy_isMajorChange(prevHtml, scannedHtml,
                                                    page[id].changeThreshold) :
                  IF isMajor = "throws"
                    THEN /\ storageOps' = Tail(storageOps)
                         /\ last' = Event("throws", id, "-", page[id], prevHtml,
                                           scannedHtml)
                         /\ UNCHANGED <<page, majorSinceAck, baseline>>
                    ELSE _updatePageState(id, prevHtml, scannedHtml,
                           _getChangeType(prevHtml, scannedHtml, isMajor))
           ELSE _updatePageState(id, prevHtml, scannedHtml,
                  _getChangeType(prevHtml, scannedHtml, "false"))
  /\ UNCHANGED <<storedPage, html, pc, pageList, idx, scanId, fetches, fetched,
                 outcomes, settled>>

\* PageStore.loadHtml rejects: Scan._processHtml attached no rejection handler.
loadHtmlRejects ==
  /\ storageOps # <<>>
  /\ Head(storageOps).op = "loadHtml"
  /\ storageOps' = Tail(storageOps)
  /\ last' = Event("loadHtmlRejects", Head(storageOps).id, "-",
                    page[Head(storageOps).id], <<>>, Head(storageOps).html)
  /\ UNCHANGED <<page, storedPage, html, pc, pageList, idx, scanId, fetches,
                 fetched, outcomes, settled, majorSinceAck, baseline>>

\* A PageStore.saveHtml call reaches the snapshot store.
saveHtmlLands ==
  /\ storageOps # <<>>
  /\ Head(storageOps).op = "saveHtml"
  /\ html' = [html EXCEPT ![Head(storageOps).id][Head(storageOps).htmlType] =
                            Head(storageOps).html]
  /\ storageOps' = Tail(storageOps)
  /\ UNCHANGED <<page, storedPage, pc, pageList, idx, scanId, fetches, fetched,
                 outcomes, settled, majorSinceAck, baseline, last>>

\* Storage.save of a Page record reaches the object store.
saveLands ==
  /\ storageOps # <<>>
  /\ Head(storageOps).op = "save"
  /\ storedPage' = [storedPage EXCEPT ![Head(storageOps).id] = Head(storageOps).data]
  /\ storageOps' = Tail(storageOps)
  /\ settled' = [settled EXCEPT !["save"] = Settled("save", "fulfilled")]
  /\ UNCHANGED <<page, html, pc, pageList, idx, scanId, fetches, fetched, outcomes,
                 majorSinceAck, baseline, last>>

\* The user views a changed page: the UI resets its state and saves it.
acknowledge(id) ==
  /\ page[id].state = stateEnum.CHANGED
  /\ page' = [page EXCEPT ![id].state = stateEnum.NO_CHANGE]
  /\ storageOps' = Append(storageOps, save(id, page'[id]))
  /\ majorSinceAck' = [majorSinceAck EXCEPT ![id] = FALSE]
  /\ last' = Step("acknowledge", id)
  /\ UNCHANGED <<storedPage, html, pc, pageList, idx, scanId, fetches, fetched,
                 outcomes, settled, baseline>>

Next ==
  \/ \E list \in PageLists : scan(list)
  \/ \E response \in Responses : fetchResponds(response)
  \/ \E error \in TransportErrors : fetchRejects(error)
  \/ loadHtmlResolves
  \/ loadHtmlRejects
  \/ saveHtmlLands
  \/ saveLands
  \/ \E id \in Pages : acknowledge(id)

Spec == Init /\ [][Next]_vars

\* The fetch in flight settles, with a response or with a transport error.
FetchSettles ==
  \/ \E response \in Responses : fetchResponds(response)
  \/ \E error \in TransportErrors : fetchRejects(error)

\* The behaviours in which no fetch stays pending for ever. Nothing is assumed
\* of the storage calls: the chain of Scan.scan awaits none of them.
LiveSpec == Spec /\ WF_vars(FetchSettles)

\* Scan.scan called once every storage call of the scans before it has settled.
scanWhenLanded(list) ==
  /\ storageOps = <<>>
  /\ scan(list)

\* The behaviours in which a scan starts only after the writes of the scans
\* before it have landed.
LandedNext ==
  \/ \E list \in PageLists : scanWhenLanded(list)
  \/ \E response \in Responses : fetchResponds(response)
  \/ \E error \in TransportErrors : fetchRejects(error)
  \/ loadHtmlResolves
  \/ loadHtmlRejects
  \/ saveHtmlLands
  \/ saveLands
  \/ \E id \in Pages : acknowledge(id)

LandedSpec == Init /\ [][LandedNext]_vars

\* The state after construction when the Page records loaded from storage
\* (Page.load) hold the ERROR value as their state.
LoadedInit ==
  /\ page = [id \in Pages |->
               [DEFAULTS(Threshold) EXCEPT !.state = stateEnum.ERROR,
                                           !.ignoreNumbers = (id \in IgnoringNumbers)]]
  /\ storedPage = [id \in Pages |-> _toObject(page[id])]
  /\ html \in [Pages -> { [t \in {htmlTypes_OLD, htmlTypes_NEW} |->
                               IF t = htmlTypes_NEW THEN d ELSE Undefined] :
                             d \in InitialDocs }]
  /\ storageOps = <<>>
  /\ pc = "idle"
  /\ pageList = <<>>
  /\ idx = 1
  /\ scanId = 0
  /\ fetches = 0
  /\ fetched = <<>>
  /\ outcomes = <<>>
  /\ settled = [call \in {"save", "delete"} |-> NotSettled]
  /\ majorSinceAck = [id \in Pages |-> FALSE]
  /\ baseline = [id \in Pages |-> Undefined]
  /\ last = Step("init", 0)

\* The scans of pages whose stored state is the ERROR value.
LoadedSpec == LoadedInit /\ [][Next]_vars

\* The user edits the changeThreshold of a page and the UI calls Page.save.
edit(id, threshold) ==
  /\ Len(storageOps) < MaxInFlight
  /\ page' = [page EXCEPT ![id].changeThreshold = threshold]
  /\ storageOps' = Append(storageOps, save(id, page'[id]))
  /\ UNCHANGED <<storedPage, html, pc, pageList, idx, scanId, fetches, fetched,
                 outcomes, settled, majorSinceAck, baseline, last>>

\* Page.delete: Storage.remove(key) issued and awaited.
delete(id) ==
  /\ Len(storageOps) < MaxInFlight
  /\ storageOps' = Append(storageOps, StorageOp("remove", id, "-", <<>>, NoData))
  /\ UNCHANGED <<page, storedPage, html, pc, pageList, idx, scanId, fetches,
                 fetched, outcomes, settled, majorSinceAck, baseline, last>>

\* Storage.save rejects: nothing is stored, Page.save catches the error.
saveRejects ==
  /\ storageOps # <<>>
  /\ Head(storageOps).op = "save"
  /\ storageOps' = Tail(storageOps)
  /\ settled' = [settled EXCEPT !["save"] = Settled("save", "rejected")]
  /\ UNCHANGED <<page, storedPage, html, pc, pageList, idx, scanId, fetches,
                 fetched, outcomes, majorSinceAck, baseline, last>>

\* Storage.remove of a Page record reaches the object store.
removeLands ==
  /\ storageOps # <<>>
  /\ Head(storageOps).op = "remove"
  /\ storedPage' = [storedPage EXCEPT ![Head(storageOps).id] = NoData]
  /\ storageOps' = Tail(storageOps)
  /\ settled' = [settled EXCEPT !["delete"] = Settled("delete", "fulfilled")]
  /\ UNCHANGED <<page, html, pc, pageList, idx, scanId, fetches, fetched, outcomes,
                 majorSinceAck, baseline, last>>

\* Storage.remove rejects: the record stays, Page.delete catches the error.
removeRejects ==
  /\ storageOps # <<>>
  /\ Head(storageOps).op = "remove"
  /\ storageOps' = Tail(storageOps)
  /\ settled' = [settled EXCEPT !["delete"] = Settled("delete", "rejected")]
  /\ UNCHANGED <<page, storedPage, html, pc, pageList, idx, scanId, fetches,
                 fetched, outcomes, majorSinceAck, baseline, last>>

\* Page.save and Page.delete called from the user interface, against an object
\* store whose calls may fail.
PageNext ==
  \/ \E id \in Pages, threshold \in 1..Threshold : edit(id, threshold)
  \/ \E id \in Pages : delete(id)
  \/ saveLands
  \/ saveRejects
  \/ removeLands
  \/ removeRejects

PageSpec == Init /\ [][PageNext]_vars

\* The PageStore.saveHtml calls for a page still in flight.
PendingHtml(id) ==
  SelectSeq(storageOps, LAMBDA o : o.op = "saveHtml" /\ o.id = id)

\* The calls of one scan's PageStore.loadHtml still in flight for a page.
PendingLoad(scanNo, id) ==
  SelectSeq(storageOps, LAMBDA o : o.op = "loadHtml" /\ o.id = id /\ o.scan = scanNo)

\* The last step of the program classified a fetch of page id as cat.
Classified(id, cat) ==
  last.kind = "updatePageState" /\ last.id = id /\ last.cat = cat

\* C1. State monotonicity: a page that is CHANGED stays CHANGED in every step,
\* whether a scan is classified (any of the four categories), a fetch fails or
\* a store call lands; only an acknowledgment takes it out of CHANGED.
C1_StateMonotonicity ==
  [][\A id \in Pages :
       page[id].state = stateEnum.CHANGED /\ page'[id].state # stateEnum.CHANGED
         => last'.kind = "acknowledge" /\ last'.id = id]_vars

\* C1 witness: a scan of a CHANGED page was classified NO_CHANGE, and the page
\* is still CHANGED.
C1_Witness ==
  \E id \in Pages :
    /\ Classified(id, changeEnum.NO_CHANGE)
    /\ last.prevState = stateEnum.CHANGED
    /\ page[id].state = stateEnum.CHANGED

\* C2. A page created with state NO_CHANGE is CHANGED if and only if a scan of
\* it was classified MAJOR_CHANGE since it was created or last acknowledged.
C2_ChangedIffMajor ==
  \A id \in Pages : page[id].state = stateEnum.CHANGED <=> majorSinceAck[id]

\* C2 witness: the scan just classified MAJOR_CHANGE moved a NO_CHANGE page to
\* CHANGED, while the other page, scanned without a major change, is not.
C2_Witness ==
  \E id \in Pages :
    /\ Classified(id, changeEnum.MAJOR_CHANGE)
    /\ last.prevState = stateEnum.NO_CHANGE
    /\ page[id].state = stateEnum.CHANGED
    /\ \E other \in Pages \ {id} :
         page[other].error = "false" /\ page[other].state = stateEnum.NO_CHANGE

\* C3. Snapshot-on-first-change: after a scan of a page that was not CHANGED,
\* whose stored NEW snapshot was X, was classified MAJOR_CHANGE with fetched
\* content Y, once the snapshot writes issued for the page have landed the OLD
\* snapshot is X and the NEW snapshot is Y.
C3_SnapshotOnFirstChange ==
  \A id \in Pages :
    ( /\ Classified(id, changeEnum.MAJOR_CHANGE)
      /\ last.prevState # stateEnum.CHANGED
      /\ PendingHtml(id) = <<>> )
      => /\ html[id][htmlTypes_OLD] = last.prevHtml
         /\ html[id][htmlTypes_NEW] = last.html

\* C3 witness: the NEW snapshot "1" of a NO_CHANGE page became the OLD snapshot
\* and the fetched "22" the NEW one.
C3_Witness ==
  \E id \in Pages :
    /\ Classified(id, changeEnum.MAJOR_CHANGE)
    /\ last.prevState = stateEnum.NO_CHANGE
    /\ last.prevHtml = <<"1">>
    /\ last.html = <<"2", "2">>
    /\ PendingHtml(id) = <<>>
    /\ html[id][htmlTypes_OLD] = <<"1">>
    /\ html[id][htmlTypes_NEW] = <<"2", "2">>

\* C4. A scan classified MAJOR_CHANGE while the page is already CHANGED writes
\* the fetched content to the NEW snapshot only: once the snapshot writes for
\* the page have landed, NEW holds the fetched content and OLD still holds the
\* snapshot captured when the page became CHANGED.
C4_OldKeptWhileChanged ==
  \A id \in Pages :
    ( /\ Classified(id, changeEnum.MAJOR_CHANGE)
      /\ last.prevState = stateEnum.CHANGED
      /\ PendingHtml(id) = <<>> )
      => /\ html[id][htmlTypes_NEW] = last.html
         /\ html[id][htmlTypes_OLD] = baseline[id]

\* C4 witness: a second major change in a row; OLD is not the snapshot the
\* second scan compared with.
C4_Witness ==
  \E id \in Pages :
    /\ Classified(id, changeEnum.MAJOR_CHANGE)
    /\ last.prevState = stateEnum.CHANGED
    /\ PendingHtml(id) = <<>>
    /\ html[id][htmlTypes_OLD] = <<"1">>
    /\ last.prevHtml = <<"2", "2">>
    /\ html[id][htmlTypes_NEW] = <<>>

\* The storage calls for a page still in flight.
PendingOps(id) == SelectSeq(storageOps, LAMBDA o : o.id = id)

\* The rejection reasons the .catch of Scan._scanPage can receive.
FailureDescriptions ==
  TransportErrors
    \cup { <<"[", r.status, "] ", r.statusText>> : r \in { x \in Responses : ~ x.ok } }

\* This step is the .catch of Scan._scanPage handling a failed fetch.
FetchFailed ==
  /\ Len(outcomes') = Len(outcomes) + 1
  /\ outcomes'[Len(outcomes')] = "failed"

\* C5. Within one Scan.scan call, while the fetch of a page is in flight every
\* page before it in the list has had its classification decided: no
\* PageStore.loadHtml of this scan for an earlier page is still pending.
C5_FetchAfterClassification ==
  pc = "fetching" =>
    \A j \in 1..(idx - 1) : PendingLoad(scanId, pageList[j]) = <<>>

\* C6. When the promise returned by Scan.scan has fulfilled, every page of the
\* list has been fetched and every successful fetch classified: no
\* PageStore.loadHtml of this scan is still pending.
C6_FulfilsAfterClassification ==
  pc = "fulfilled" =>
    /\ Len(outcomes) = Len(pageList)
    /\ \A j \in 1..Len(pageList) : PendingLoad(scanId, pageList[j]) = <<>>

\* C7. Batch resilience: once the promise returned by Scan.scan has fulfilled,
\* every page of the list has been fetched, and every page whose fetch failed
\* has error == true.
C7_BatchResilience ==
  pc = "fulfilled" =>
    /\ Len(outcomes) = Len(pageList)
    /\ \A j \in 1..Len(pageList) :
         outcomes[j] = "failed" => page[pageList[j]].error = "true"

\* C8. A failed fetch sets page.error to true and page.errorMessage to the
\* failure description and changes nothing else: the state of the page, the
\* other page, both snapshot slots, the stored Page record and the storage
\* calls in flight are as before.
C8_FetchFailureFrame ==
  [][FetchFailed =>
       LET id == pageList[idx] IN
         /\ last'.html \in FailureDescriptions
         /\ page' = [page EXCEPT ![id].error = "true",
                                 ![id].errorMessage = last'.html]
         /\ storageOps' = storageOps
         /\ html' = html
         /\ storedPage' = storedPage]_vars

\* C8 witness: the fetch of a CHANGED page with both snapshots stored failed
\* with a 404; the page is still CHANGED.
C8_Witness ==
  \E id \in Pages :
    /\ last.kind = "catch" /\ last.id = id
    /\ last.prevState = stateEnum.CHANGED
    /\ page[id].state = stateEnum.CHANGED
    /\ page[id].error = "true"
    /\ page[id].errorMessage = <<"[", "404", "] ", "Not Found">>
    /\ html[id][htmlTypes_OLD] = <<"1">>
    /\ html[id][htmlTypes_NEW] = <<"2", "2">>
    /\ storageOps = <<>>

\* C9. After every scan attempt the Page record is saved: once no storage call
\* for the page is in flight, the stored record equals the Page in memory.
C9_PageRecordSaved ==
  \A id \in Pages :
    PendingOps(id) = <<>> => storedPage[id] = _toObject(page[id])

\* C10. After a successful fetch has been classified, whatever the category
\* and the prior state, page.error is false and page.errorMessage is empty.
C10_ErrorCleared ==
  \A id \in Pages :
    (last.kind = "updatePageState" /\ last.id = id)
      => page[id].error = "false" /\ page[id].errorMessage = <<>>

\* C10 witness: a page whose earlier scan failed is scanned with unchanged
\* content, and its error is cleared.
C10_Witness ==
  \E id \in Pages :
    /\ Classified(id, changeEnum.NO_CHANGE)
    /\ last.prevError = "true"
    /\ page[id].error = "false"
    /\ page[id].errorMessage = <<>>

\* The kinds of step in which the callback of PageStore.loadHtml ran the
\* classifier: Scan._updatePageState went through, or the comparison threw.
Compared == {"updatePageState", "throws"}

\* C11: whenever the classifier is run on a previous text that is empty or
\* absent (no NEW snapshot stored), it returns NEW_CONTENT, whatever the new
\* text and the threshold, also when both texts are empty.
C11_EmptyOrAbsentIsNewContent ==
  (last.kind \in Compared /\ last.prevHtml \in {<<>>, Undefined})
    => (last.kind = "updatePageState" /\ last.cat = changeEnum.NEW_CONTENT)

\* The digit characters.
Digits == {"0", "1", "2", "3", "4", "5", "6", "7", "8", "9"}

\* A text with every maximal run of digits collapsed to one placeholder.
RECURSIVE CollapseDigits(_)
CollapseDigits(text) ==
  IF text = <<>> THEN <<>>
  ELSE IF Head(text) \in Digits
    THEN LET rest == CollapseDigits(Tail(text))
         IN  IF rest # <<>> /\ Head(rest) = "#" THEN rest ELSE <<"#">> \o rest
  ELSE <<Head(text)>> \o CollapseDigits(Tail(text))

\* Two texts that differ, and only inside runs of digits.
DifferOnlyInDigits(text1, text2) ==
  /\ text1 # Undefined /\ text2 # Undefined
  /\ text1 # text2
  /\ CollapseDigits(text1) = CollapseDigits(text2)

\* C12: for a page with ignoreNumbers = true, a previous and a fetched text that
\* differ only inside digit runs are never classified MAJOR_CHANGE, so the page
\* does not become CHANGED, even when the raw difference reaches the threshold.
C12_NumericSuppression ==
  (/\ last.kind = "updatePageState"
   /\ page[last.id].ignoreNumbers
   /\ DifferOnlyInDigits(last.prevHtml, last.html))
    => (last.cat # changeEnum.MAJOR_CHANGE /\ page[last.id].state = last.prevState)

\* C13: Page.save and Page.delete never fail towards their caller: whether
\* Storage.save / Storage.remove fulfils or rejects, the promise they return
\* fulfils with an empty object, and a rejection is logged.
C13_SaveAndDeleteNeverFail ==
  \A call \in {"save", "delete"} :
    settled[call].storage \in {"fulfilled", "rejected"}
      => /\ settled[call].promise = "fulfilled"
         /\ settled[call].value = "{}"
         /\ (settled[call].storage = "rejected" => settled[call].logged)

\* Storage.save and Storage.remove have both rejected; the store still holds
\* the record of a page the user deleted.
C13_Witness ==
  /\ settled["save"].storage = "rejected"
  /\ settled["delete"].storage = "rejected"
  /\ storageOps = <<>>
  /\ \E id \in Pages : storedPage[id] # _toObject(page[id])

\* C14: when PageStore.loadHtml rejects inside Scan._processHtml, the scan
\* catches the failure and records it on the page (page.error = true, with a
\* message), so the page does not keep the error fields of an earlier scan.
C14_LoadFailureRecorded ==
  last.kind = "loadHtmlRejects"
    => /\ page[last.id].error = "true"
       /\ page[last.id].errorMessage \notin {<<"null">>, <<>>}

\* C15: scans started one after the other (each after the previous promise
\* fulfilled) never overlap on a page: the snapshot store serves no read of a
\* later scan for page P while a snapshot read or write of an earlier scan for
\* P is still outstanding, so the later scan compares against what the
\* earlier one fetched.
C15_SequentialScansDoNotOverlap ==
  \A i, j \in DOMAIN storageOps : \A id \in Pages :
    (/\ i < j
     /\ storageOps[i].op = "loadHtml"
     /\ storageOps[i].id = id
     /\ storageOps[j].id = id
     /\ storageOps[j].op \in {"loadHtml", "saveHtml"})
      => storageOps[i].scan <= storageOps[j].scan

\* The number of fetches of the running Scan.scan that have not settled yet.
InFlightFetches == Len(fetched) - Len(outcomes)

\* C16: within one Scan.scan(pageList) at most one fetch is in flight, the
\* fetches are started in list order, and when the promise fulfils every page
\* of the list has been fetched exactly once, whichever fetches failed.
C16_OneFetchAtATimeInListOrder ==
  /\ InFlightFetches \in {0, 1}
  /\ InFlightFetches = 1 <=> pc = "fetching"
  /\ Len(fetched) <= Len(pageList)
  /\ fetched = SubSeq(pageList, 1, Len(fetched))
  /\ pc = "fulfilled" => (fetched = pageList /\ Len(outcomes) = Len(pageList))

\* A two-page scan fulfilled although its first fetch failed.
C16_Witness ==
  /\ pc = "fulfilled"
  /\ Len(pageList) = 2
  /\ fetched = pageList
  /\ outcomes[1] = "failed"

\* C17: when every fetch and every snapshot load settles, the promise of
\* Scan.scan eventually fulfils; and the chain moves on only when the fetch in
\* flight settles, so while the fetch of page k stays pending no later page is
\* fetched and the promise does not fulfil.
C17_BatchCompletes ==
  /\ (pc = "fetching") ~> (pc = "fulfilled")
  /\ [][(pc = "fetching" /\ (pc' # pc \/ fetched' # fetched \/ idx' # idx))
          => Len(outcomes') = Len(outcomes) + 1]_vars

\* A two-page scan has fulfilled after both of its fetches failed.
C17_Witness ==
  /\ pc = "fulfilled"
  /\ Len(pageList) = 2
  /\ outcomes = <<"failed", "failed">>

\* The snapshot writes this step issues: page, slot and content, in order.
IssuedWrites ==
  LET issued == SelectSeq(SubSeq(storageOps', Len(storageOps), Len(storageOps')),
                          LAMBDA o : o.op = "saveHtml")
  IN  [i \in DOMAIN issued |->
         [id |-> issued[i].id, htmlType |-> issued[i].htmlType, html |-> issued[i].html]]

\* A snapshot write as IssuedWrites lists it.
Write(id, htmlType, text) == [id |-> id, htmlType |-> htmlType, html |-> text]

\* This step is the callback of PageStore.loadHtml running Scan._updatePageState.
UpdatesPageState ==
  /\ storageOps # <<>>
  /\ Head(storageOps).op = "loadHtml"
  /\ last'.kind = "updatePageState"

\* C18: the snapshot writes a classification issues depend on the category and
\* the prior state alone: NO_CHANGE issues none; NEW_CONTENT and MINOR_CHANGE
\* write only NEW, with the fetched content; MAJOR_CHANGE writes NEW, and OLD
\* (with the previous NEW) only when the page was not CHANGED.
C18_WritesByCategory ==
  [][UpdatesPageState =>
       LET id == last'.id
           new == Write(id, htmlTypes_NEW, last'.html)
           old == Write(id, htmlTypes_OLD, last'.prevHtml)
       IN  IssuedWrites =
             CASE last'.cat = changeEnum.NO_CHANGE -> << >>
               [] last'.cat \in {changeEnum.NEW_CONTENT, changeEnum.MINOR_CHANGE}
                    -> << new >>
               [] last'.cat = changeEnum.MAJOR_CHANGE
                    /\ last'.prevState # stateEnum.CHANGED -> << old, new >>
               [] OTHER -> << new >>]_vars

\* A fetch of "1" against the stored "1" was classified NO_CHANGE and only the
\* Page record is being saved: no snapshot write is in flight and the
\* snapshots are as they were.
C18_Witness ==
  \E id \in Pages :
    /\ Classified(id, changeEnum.NO_CHANGE)
    /\ last.prevHtml = <<"1">>
    /\ storageOps = << save(id, page[id]) >>
    /\ html[id][htmlTypes_NEW] = <<"1">>
    /\ html[id][htmlTypes_OLD] = Undefined

\* The kinds of step that end the handling of a successful fetch: the
\* classification, the comparison throwing, or PageStore.loadHtml rejecting.
Handled == {"updatePageState", "throws", "loadHtmlRejects"}

\* C19: when every scan starts after the writes of the scans before it have
\* landed, then once the handling of a successful fetch of a page is over and
\* its snapshot writes have landed, the stored NEW snapshot is the content
\* that fetch returned, also when the category was NO_CHANGE.
C19_NewIsLastFetched ==
  (last.kind \in Handled /\ PendingHtml(last.id) = <<>>)
    => html[last.id][htmlTypes_NEW] = last.html

\* C20: after a successful fetch has been classified the page state is
\* NO_CHANGE or CHANGED, whatever it was: a state other than CHANGED (the ERROR
\* value included) becomes NO_CHANGE on NEW_CONTENT, NO_CHANGE and
\* MINOR_CHANGE, and becomes CHANGED on MAJOR_CHANGE, with the OLD snapshot
\* overwritten by the previous NEW one once the writes have landed.
C20_StateNormalised ==
  last.kind = "updatePageState" =>
    /\ page[last.id].state \in {stateEnum.NO_CHANGE, stateEnum.CHANGED}
    /\ last.prevState # stateEnum.CHANGED =>
         /\ page[last.id].state =
              (IF last.cat = changeEnum.MAJOR_CHANGE THEN stateEnum.CHANGED
               ELSE stateEnum.NO_CHANGE)
         /\ (last.cat = changeEnum.MAJOR_CHANGE /\ PendingHtml(last.id) = <<>>)
              => html[last.id][htmlTypes_OLD] = last.prevHtml

\* One page in the ERROR state was classified MAJOR_CHANGE ("1" to "22"): it
\* is CHANGED and its OLD snapshot is "1"; the other page, classified
\* otherwise, has left the ERROR state for NO_CHANGE.
C20_Witness ==
  \E id, other \in Pages :
    /\ Classified(id, changeEnum.MAJOR_CHANGE)
    /\ last.prevState = stateEnum.ERROR
    /\ PendingHtml(id) = <<>>
    /\ page[id].state = stateEnum.CHANGED
    /\ html[id][htmlTypes_OLD] = <<"1">>
    /\ other # id
    /\ page[other].state = stateEnum.NO_CHANGE
====
